---- MODULE Spec2Model ----
\* A model of cassandra_range_repair (range_repair.py, repair_failed_ranges.py):
\* the token container and its sub-range generator, the exponential-backoff
\* retryer, the repair status ledger held by the manager process, and the
\* dispatcher repair() with its pool of workers.
\*
\* Python strings are modelled as sequences of one-character strings, so that
\* str.format, " ".join and iteration over a string do what the code does.
\* Python integers are unbounded; the token space is scaled down from 64 bits
\* to TokenBits bits so that the ring's ends are within TLC's integers.
EXTENDS Integers, Sequences, FiniteSets, TLC

VARIABLES
    tokens,     \* the TokenContainer: ring_tokens, host_tokens, md5 (which template and range)
    gen,        \* the sub_range_generator object being consumed
    emitted,    \* what the consumer of gen has received so far
    retry_cfg,  \* ExponentialBackoffRetryerConfig of the stand-alone retryer
    retryer,    \* the stand-alone retryer call: loop index, next_sleep, position
    results,    \* results the executor returned to the stand-alone retryer, in order
    slept,      \* durations passed to the sleeper by the stand-alone retryer, in order
    options,    \* the OptionParser result of a run of repair()
    status,     \* the RepairStatus object held by the manager process
    file,       \* the status file: the document last written to it
    main_pc,    \* where repair() is
    token_num,  \* the index of the host token repair() is at
    queue,      \* tasks given to the pool by apply_async and not yet taken by a worker
    running,    \* the tasks the pool's workers are executing
    task_log,   \* what each task that returned did (not program state)
    calls,      \* how many times each ledger method was called (not program state)
    resume,     \* a run of repair_failed_ranges.py: its status object, locals, file and exit
    call        \* one call of a function of range_repair.py: its arguments and its result

genVars == <<tokens, gen, emitted>>
retryVars == <<retry_cfg, retryer, results, slept>>
runVars == <<options, status, file, main_pc, token_num, queue, running, task_log, calls>>
resumeVars == <<resume>>
callVars == <<call>>
vars == <<tokens, gen, emitted, retry_cfg, retryer, results, slept,
          options, status, file, main_pc, token_num, queue, running, task_log, calls,
          resume, call>>

----------------------------------------------------------------------------
\* Bounds of the model

\* width in bits of the scaled-down token space (the code's is 64, and 127 for MD5)
TokenBits == 4
\* largest `steps` given to the stand-alone sub_range_generator
MaxSteps == 4

----------------------------------------------------------------------------
\* Strings

Min(a, b) == IF a < b THEN a ELSE b
Abs(n) == IF n < 0 THEN -n ELSE n

DigitChars == <<"0", "1", "2", "3", "4", "5", "6", "7", "8", "9">>

\* the decimal digits of n >= 0, zero-padded on the left to k characters
RECURSIVE Digits(_, _)
Digits(n, k) ==
    IF k = 0 THEN <<>> ELSE Append(Digits(n \div 10, k - 1), DigitChars[(n % 10) + 1])

\* str(n) for an integer n
RECURSIVE NatStr(_)
NatStr(n) == IF n < 10 THEN <<DigitChars[n + 1]>> ELSE Append(NatStr(n \div 10), DigitChars[(n % 10) + 1])
IntStr(n) == IF n < 0 THEN <<"-">> \o NatStr(-n) ELSE NatStr(n)

\* sep.join(parts), parts a sequence of strings
RECURSIVE Join(_, _)
Join(parts, sep) ==
    IF parts = <<>> THEN <<>>
    ELSE IF Len(parts) = 1 THEN parts[1]
    ELSE LET half == Len(parts) \div 2
         IN  Join(SubSeq(parts, 1, half), sep) \o sep
             \o Join(SubSeq(parts, half + 1, Len(parts)), sep)

\* what iterating over a Python string yields: its characters, each a string
Chars(s) == [i \in 1..Len(s) |-> <<s[i]>>]

\* longish(s): the integer a formatted token reads as
DigitValue(c) == CHOOSE d \in 0..9 : DigitChars[d + 1] = c
RECURSIVE DigitsValue(_)
DigitsValue(s) == IF s = <<>> THEN 0 ELSE 10 * DigitsValue(SubSeq(s, 1, Len(s) - 1)) + DigitValue(s[Len(s)])
longish(s) ==
    IF s[1] = "-" THEN -DigitsValue(Tail(s))
    ELSE IF s[1] = "+" THEN DigitsValue(Tail(s))
    ELSE DigitsValue(s)

\* s.split(sep), sep one character
RECURSIVE Split(_, _)
Split(s, sep) ==
    IF \A i \in 1..Len(s) : s[i] # sep
    THEN <<s>>
    ELSE LET i == CHOOSE k \in 1..Len(s) : s[k] = sep /\ \A j \in 1..(k - 1) : s[j] # sep
         IN  <<SubSeq(s, 1, i - 1)>> \o Split(SubSeq(s, i + 1, Len(s)), sep)

----------------------------------------------------------------------------
\* TokenContainer

\* "{0:+021d}": 21 characters, the sign first
FormatWidthMurmur3 == 21
\* "{0:039d}": 39 characters
FormatWidthMD5 == 39

\* check_for_MD5_tokens: the Random partitioner's constants replace the class's
\* when the first ring token is not negative
TokenContainer(ring_tokens, host_tokens) ==
    [ring_tokens |-> ring_tokens,
     host_tokens |-> host_tokens,
     host_token_count |-> Len(host_tokens),
     md5 |-> ~(ring_tokens[1] < 0)]

\* RANGE_MIN = -(2**63), or 0 for MD5
RANGE_MIN(tc) == IF tc.md5 THEN 0 ELSE -(2 ^ (TokenBits - 1))
\* RANGE_MAX = (2**63)-1, or (2**127)-1 for MD5
RANGE_MAX(tc) == IF tc.md5 THEN (2 ^ TokenBits) - 1 ELSE (2 ^ (TokenBits - 1)) - 1

\* the token formatted without its zero padding (a plausible slip)
Format_unpadded(tc, value) ==
    IF tc.md5
    THEN IntStr(value)
    ELSE <<IF value < 0 THEN "-" ELSE "+">> \o NatStr(Abs(value))

\* FORMAT_TEMPLATE.format(value): zero padding goes between the sign and the digits
Format(tc, value) ==
    IF tc.md5
    THEN IF value < 0
         THEN <<"-">> \o Digits(-value, FormatWidthMD5 - 1)
         ELSE Digits(value, FormatWidthMD5)
    ELSE <<IF value < 0 THEN "-" ELSE "+">> \o Digits(Abs(value), FormatWidthMurmur3 - 1)

\* Python's range(a, b, inc) for inc > 0
PyRange(a, b, inc) ==
    LET n == IF b <= a THEN 0 ELSE (b - a + inc - 1) \div inc
    IN  [i \in 1..n |-> a + (i - 1) * inc]

FormatAll(tc, xs) == [i \in 1..Len(xs) |-> Format(tc, xs[i])]

\* lst[0:n]
Take(lst, n) == SubSeq(lst, 1, Min(n, Len(lst)))
\* lst.pop() of a non-empty list
PopLast(lst) == SubSeq(lst, 1, Len(lst) - 1)

\* the step list of the non-wrapping branch, untrimmed (a plausible slip)
NonWrapStepList_untrimmed(tc, start, stop, steps) ==
    LET step_increment == (stop - start) \div steps
    IN  FormatAll(tc, PyRange(start, stop, step_increment))

\* sub_range_generator, stop > start and start+steps < stop+1: the step list
NonWrapStepList(tc, start, stop, steps) ==
    LET step_increment == (stop - start) \div steps
    IN  Take(FormatAll(tc, PyRange(start, stop, step_increment)), steps)

WrapDistance(tc, start, stop) == (RANGE_MAX(tc) - start) + (stop - RANGE_MIN(tc))

\* sub_range_generator, the wrap-around branch with distance > steps-1: the step list
WrapStepList(tc, start, stop, steps) ==
    LET step_increment == WrapDistance(tc, start, stop) \div steps
        step_list == FormatAll(tc, PyRange(start, RANGE_MAX(tc), step_increment))
                     \o FormatAll(tc, PyRange(RANGE_MIN(tc), stop, step_increment))
    IN  IF Len(step_list) > steps - 1 THEN PopLast(step_list) ELSE step_list

\* A generator object of sub_range_generator. pc is where it is suspended:
\* "created" (not started), "yield227" (at the yield of a whole range, lines 227
\* and 239, with step_list unbound), "yield244" (at the yield of the pair-wise
\* loop), "finished" (returned), "raised" (an exception left it).
Generator(start, stop, steps) ==
    [pc |-> "created", start |-> start, stop |-> stop, steps |-> steps,
     step |-> 0, step_list |-> <<>>, step_list_bound |-> FALSE]

NoValue == [start |-> <<>>, end |-> <<>>, step |-> 0]

\* lines 242-245: the pair-wise loop, entered with the list as it is now
PairLoop(g, step_list) ==
    IF Len(step_list) > 1
    THEN [g |-> [g EXCEPT !.pc = "yield244", !.step = g.step + 1,
                          !.step_list = step_list, !.step_list_bound = TRUE],
          kind |-> "yield",
          value |-> [start |-> step_list[1], end |-> step_list[2], step |-> g.step + 1]]
    ELSE [g |-> [g EXCEPT !.pc = "finished", !.step_list = step_list, !.step_list_bound = TRUE],
          kind |-> "StopIteration", value |-> NoValue]

\* line 240 onwards: step_list.append(self.format(stop)), then the loop
AppendStop(tc, g, bound, step_list) ==
    IF ~bound
    THEN [g |-> [g EXCEPT !.pc = "raised"], kind |-> "UnboundLocalError", value |-> NoValue]
    ELSE PairLoop(g, Append(step_list, Format(tc, g.stop)))

\* lines 226-227 and 238-239: step += 1; yield the whole range
YieldWhole(tc, g) ==
    [g |-> [g EXCEPT !.pc = "yield227", !.step = g.step + 1],
     kind |-> "yield",
     value |-> [start |-> Format(tc, g.start), end |-> Format(tc, g.stop), step |-> g.step + 1]]

\* next(g): run the generator to its next yield, its return or its exception
GenNext(tc, g) ==
    CASE g.pc = "created" ->
            IF g.stop > g.start
            THEN IF g.start + g.steps < g.stop + 1
                 THEN AppendStop(tc, g, TRUE, NonWrapStepList(tc, g.start, g.stop, g.steps))
                 ELSE YieldWhole(tc, g)
            ELSE IF WrapDistance(tc, g.start, g.stop) > g.steps - 1
                 THEN AppendStop(tc, g, TRUE, WrapStepList(tc, g.start, g.stop, g.steps))
                 ELSE YieldWhole(tc, g)
      [] g.pc = "yield227" -> AppendStop(tc, g, g.step_list_bound, g.step_list)
      [] g.pc = "yield244" -> PairLoop(g, Tail(g.step_list))
      [] OTHER -> [g |-> g, kind |-> "StopIteration", value |-> NoValue]

----------------------------------------------------------------------------
\* ExponentialBackoffRetryer

\* largest max_tries given to the stand-alone retryer
RetryMaxTries == 4

InitialSleeps == {0, 1, 2}
SleepFactors == {1, 2, 3}
MaxSleeps == {-1, 0, 1, 5}

ExponentialBackoffRetryerConfig(max_tries, initial_sleep, sleep_factor, max_sleep) ==
    [max_tries |-> max_tries, initial_sleep |-> initial_sleep,
     sleep_factor |-> sleep_factor, max_sleep |-> max_sleep]

\* the success_checker of _repair_range, lambda x: x[0] (sequences start at 1 here)
SuccessChecker(result) == result[1]

NoResult == <<FALSE, <<>>>>

\* the top of `for i in range(self.config.max_tries)`: the body, or `return result`
ForLoop(cfg, r, i) ==
    IF i < cfg.max_tries
    THEN [r EXCEPT !.i = i, !.pc = "call"]
    ELSE [r EXCEPT !.pc = "returned"]

\* __call__ up to its first call of the executor
RetryerCall(cfg) ==
    ForLoop(cfg, [i |-> 0, next_sleep |-> cfg.initial_sleep, pc |-> "call", result |-> NoResult], 0)

\* the executor's return handled without `return result` on success (a plausible slip)
AfterExecute_keeps_going(cfg, r, result) ==
    LET r1 == [r EXCEPT !.result = result]
        last_iteration == (r.i = cfg.max_tries - 1)
    IN  IF ~last_iteration THEN [r1 EXCEPT !.pc = "sleep"] ELSE ForLoop(cfg, r1, r.i + 1)

\* lines 58-72: the executor returned `result`
AfterExecute(cfg, r, result) ==
    LET r1 == [r EXCEPT !.result = result]
        last_iteration == (r.i = cfg.max_tries - 1)
    IN  IF SuccessChecker(result)
        THEN [r1 EXCEPT !.pc = "returned"]
        ELSE IF ~last_iteration
             THEN [r1 EXCEPT !.pc = "sleep"]
             ELSE ForLoop(cfg, r1, r.i + 1)

\* the sleeper's argument with max_sleep applied whatever its sign (a plausible slip)
SleepDuration_always_capped(cfg, r) == Min(r.next_sleep, cfg.max_sleep)

\* lines 67-69: the sleeper's argument
SleepDuration(cfg, r) ==
    IF cfg.max_sleep <= 0 THEN r.next_sleep ELSE Min(r.next_sleep, cfg.max_sleep)

\* line 70 and the loop's next round: the sleeper returned
AfterSleep(cfg, r) ==
    ForLoop(cfg, [r EXCEPT !.next_sleep = r.next_sleep * cfg.sleep_factor], r.i + 1)

----------------------------------------------------------------------------
\* RepairStatus, the ledger

\* None, for the fields that hold None or a timestamp
None == "None"
\* datetime.now().isoformat(): the model keeps no clock, every timestamp reads the same
Now == "now"

All == <<"<", "a", "l", "l", ">">>

\* RepairStatus.__init__
RepairStatus ==
    [filename |-> FALSE, started |-> None, updated |-> None, finished |-> None,
     failed_repairs |-> <<>>, current_repair |-> <<>>,
     successful_count |-> 0, failed_count |-> 0]

\* the document write() dumps
Document(st) ==
    [started |-> st.started, updated |-> st.updated, finished |-> st.finished,
     failed_repairs |-> st.failed_repairs, current_repair |-> st.current_repair,
     successful_count |-> st.successful_count, failed_count |-> st.failed_count]

NoFile == <<>>

\* start(options): filename, reset(), started; write() follows
StatusStart(st, opts) ==
    [filename |-> opts.output_status, started |-> Now, updated |-> None, finished |-> None,
     failed_repairs |-> <<>>, current_repair |-> <<>>,
     successful_count |-> 0, failed_count |-> 0]

\* a command as a task holds it: the list of arguments get_command built, or,
\* once `success, cmd, _, stderr = retryer(*cmd)` has rebound the name, a string
CmdList(args) == [is_str |-> FALSE, v |-> args]
CmdString(str) == [is_str |-> TRUE, v |-> str]
\* what map(str, cmd) iterates over: the arguments of a list, the characters of a string
Iterate(cmd) == IF cmd.is_str THEN Chars(cmd.v) ELSE cmd.v

\* _build_repair_dict
build_repair_dict(cmd, step, start, end, nodeposition, keyspace, column_families) ==
    [time |-> Now, step |-> step, start |-> start, end |-> end,
     nodeposition |-> nodeposition,
     keyspace |-> IF keyspace # <<>> THEN keyspace ELSE All,
     column_families |-> IF column_families # <<>> THEN column_families ELSE All,
     cmd |-> Join(Iterate(cmd), <<" ">>)]

----------------------------------------------------------------------------
\* Commands

\* the default of --port
DefaultPort == 7199
\* the defaults of --initial-sleep, --sleep-factor, --max-sleep
DefaultInitialSleep == 1
DefaultSleepFactor == 2
DefaultMaxSleep == 1800

\* get_command(options, *args)
get_command(opts, args) ==
    <<opts.nodetool, <<"-", "-", "s", "s", "l">>, <<"-", "h">>, opts.host,
      <<"-", "p">>, IntStr(opts.port)>>
    \o (IF opts.username # <<>> /\ opts.password # <<>>
        THEN <<<<"-", "u">>, opts.username, <<"-", "p", "w">>, opts.password>>
        ELSE <<>>)
    \o args

\* _repair_range, lines 474-488: the repair command of a sub-range
RepairCommand(opts, start, end, keyspace, column_families) ==
    get_command(opts, << <<"r", "e", "p", "a", "i", "r">> >>)
    \o (IF keyspace # <<>> THEN <<keyspace>> ELSE <<>>)
    \o (IF column_families # <<>> THEN column_families ELSE opts.columnfamily)
    \o (IF opts.local # <<>> THEN <<opts.local>> ELSE << <<"-", "p", "r">> >>)
    \o (IF ~opts.inc THEN << <<"-", "f", "u", "l", "l">> >> ELSE <<>>)
    \o <<opts.snapshot, <<"-", "s", "t">>, start, <<"-", "e", "t">>, end>>

\* run_command(*command): the command string it runs and returns
CommandString(command) == Join(command, <<" ">>)

\* "{count}/{total}"
NodePosition(count, total) == IntStr(count) \o <<"/">> \o IntStr(total)

----------------------------------------------------------------------------
\* The exclude-step and offset options, and is_excluded

\* a dict-valued option is <<>> when it was not given, <<dict>> when it was;
\* a string that is None or empty is <<>>
NotGiven == <<>>

\* parse_exclude_step: the option's value, of 2, 3 or 4 comma-separated pieces
parse_exclude_step(value) ==
    LET pieces == Split(value, ",")
    IN  IF Len(pieces) = 4
        THEN [keyspace |-> pieces[1], column_family |-> pieces[2],
              node |-> pieces[3], step |-> longish(pieces[4])]
        ELSE IF Len(pieces) = 3
        THEN [keyspace |-> pieces[1], column_family |-> <<>>,
              node |-> pieces[2], step |-> longish(pieces[3])]
        ELSE [keyspace |-> <<>>, column_family |-> <<>>,
              node |-> pieces[1], step |-> longish(pieces[2])]

\* parse_offset: the option's value, "node,step" or "node"
parse_offset(value) ==
    LET pieces == Split(value, ",")
    IN  IF Len(pieces) >= 2
        THEN [node |-> longish(pieces[1]), step |-> longish(pieces[2])]
        ELSE [node |-> longish(pieces[1]), step |-> 1]

\* the return values of is_excluded
RUN == 0
SKIP_ENTIRE_STEP == 1
SKIP_KEYSPACE == 2

\* is_excluded with `<=` for `<` in the offset's comparison (a plausible slip)
is_excluded_through_step(opts, start, end, step, nodeposition) ==
    LET current_node == Split(nodeposition, "/")[1]
    IN  IF /\ opts.offset # NotGiven
           /\ opts.offset[1].node = longish(current_node)
           /\ step <= opts.offset[1].step
        THEN SKIP_ENTIRE_STEP
        ELSE IF /\ opts.exclude_step # NotGiven
                /\ opts.exclude_step[1].node = current_node
                /\ opts.exclude_step[1].step = step
             THEN IF opts.exclude_step[1].keyspace # <<>>
                  THEN IF opts.keyspace # <<>> /\ opts.keyspace = opts.exclude_step[1].keyspace
                       THEN SKIP_ENTIRE_STEP
                       ELSE IF opts.keyspace = <<>> THEN SKIP_KEYSPACE ELSE RUN
                  ELSE SKIP_ENTIRE_STEP
             ELSE RUN

\* is_excluded with `else` for `elif not options.keyspace` (a plausible slip)
is_excluded_else(opts, start, end, step, nodeposition) ==
    LET current_node == Split(nodeposition, "/")[1]
    IN  IF /\ opts.offset # NotGiven
           /\ opts.offset[1].node = longish(current_node)
           /\ step < opts.offset[1].step
        THEN SKIP_ENTIRE_STEP
        ELSE IF /\ opts.exclude_step # NotGiven
                /\ opts.exclude_step[1].node = current_node
                /\ opts.exclude_step[1].step = step
             THEN IF opts.exclude_step[1].keyspace # <<>>
                  THEN IF opts.keyspace # <<>> /\ opts.keyspace = opts.exclude_step[1].keyspace
                       THEN SKIP_ENTIRE_STEP
                       ELSE SKIP_KEYSPACE
                  ELSE SKIP_ENTIRE_STEP
             ELSE RUN

\* is_excluded with the step left out of the comparison (a plausible slip)
is_excluded_any_step(opts, start, end, step, nodeposition) ==
    LET current_node == Split(nodeposition, "/")[1]
    IN  IF /\ opts.offset # NotGiven
           /\ opts.offset[1].node = longish(current_node)
           /\ step < opts.offset[1].step
        THEN SKIP_ENTIRE_STEP
        ELSE IF /\ opts.exclude_step # NotGiven
                /\ opts.exclude_step[1].node = current_node
             THEN IF opts.exclude_step[1].keyspace # <<>>
                  THEN IF opts.keyspace # <<>> /\ opts.keyspace = opts.exclude_step[1].keyspace
                       THEN SKIP_ENTIRE_STEP
                       ELSE IF opts.keyspace = <<>> THEN SKIP_KEYSPACE ELSE RUN
                  ELSE SKIP_ENTIRE_STEP
             ELSE RUN

\* is_excluded(options, start, end, step, nodeposition)
is_excluded(opts, start, end, step, nodeposition) ==
    LET current_node == Split(nodeposition, "/")[1]
    IN  IF /\ opts.offset # NotGiven
           /\ opts.offset[1].node = longish(current_node)
           /\ step < opts.offset[1].step
        THEN SKIP_ENTIRE_STEP
        ELSE IF /\ opts.exclude_step # NotGiven
                /\ opts.exclude_step[1].node = current_node
                /\ opts.exclude_step[1].step = step
             THEN IF opts.exclude_step[1].keyspace # <<>>
                  THEN IF opts.keyspace # <<>> /\ opts.keyspace = opts.exclude_step[1].keyspace
                       THEN SKIP_ENTIRE_STEP
                       ELSE IF opts.keyspace = <<>> THEN SKIP_KEYSPACE ELSE RUN
                  ELSE SKIP_ENTIRE_STEP
             ELSE RUN

----------------------------------------------------------------------------
\* repair(), the dispatcher, and the tasks of its pool

\* the ring walked from its first token, not from its last (a plausible slip)
get_preceding_token_forward(tc, token) ==
    LET below == {i \in 1..Len(tc.ring_tokens) : token > tc.ring_tokens[i]}
    IN  IF below # {}
        THEN tc.ring_tokens[CHOOSE i \in below : \A j \in below : i <= j]
        ELSE tc.ring_tokens[Len(tc.ring_tokens)]

\* get_preceding_token: the first token, walking the ring from its last, that
\* `token` is greater than; the ring's last token when there is none
get_preceding_token(tc, token) ==
    LET below == {i \in 1..Len(tc.ring_tokens) : token > tc.ring_tokens[i]}
    IN  IF below # {}
        THEN tc.ring_tokens[CHOOSE i \in below : \A j \in below : j <= i]
        ELSE tc.ring_tokens[Len(tc.ring_tokens)]

\* list.sort() of a set of integers
RECURSIVE Sorted(_)
Sorted(S) ==
    IF S = {} THEN <<>>
    ELSE LET m == CHOOSE x \in S : \A y \in S : x <= y
         IN  <<m>> \o Sorted(S \ {m})

\* the retryer configuration _repair_range builds from the options
RetryOptions(opts) ==
    ExponentialBackoffRetryerConfig(opts.max_tries, opts.initial_sleep,
                                    opts.sleep_factor, opts.max_sleep)

\* the arguments apply_async hands to repair_range, and the task's locals.
\* pc: "repair_range" (line 415, when an exclusion or an offset is given),
\* "enumerate" and "expand" (lines 431-450), "start" (_repair_range), a ledger
\* call's steps, "execute", "sleep", "return".
\* excluded, subtasks and raised keep what the task did (not program state).
Task(opts, sub, node) ==
    [node |-> node,
     excluded |-> -1, expanding |-> FALSE, todo |-> <<>>,
     subtasks |-> <<>>, raised |-> None,
     nodeposition |-> NodePosition(node, Len(tokens.host_tokens)),
     start |-> sub.start, end |-> sub.end, step |-> sub.step,
     keyspace |-> opts.keyspace, column_families |-> opts.columnfamily,
     cmd |-> CmdList(RepairCommand(opts, sub.start, sub.end, opts.keyspace, opts.columnfamily)),
     pc |-> IF opts.exclude_step # NotGiven \/ opts.offset # NotGiven
            THEN "repair_range" ELSE "start",
     ret |-> "start",
     retryer |-> RetryerCall(RetryOptions(opts)),
     tmp |-> 0, snapshot |-> NoFile,
     started_cmd |-> <<>>, invocations |-> 0, success |-> FALSE]

TaskDict(t) ==
    build_repair_dict(t.cmd, t.step, t.start, t.end, t.nodeposition, t.keyspace, t.column_families)

\* _repair_range, lines 497 and 503-510: `success, cmd, _, stderr = retryer(*cmd)`
\* rebinds cmd to the string run_command returned
AfterRetryer(t, r) ==
    LET success == r.result[1]
    IN  [t EXCEPT !.retryer = r, !.success = success, !.cmd = CmdString(r.result[2]),
                  !.pc = IF success THEN "return" ELSE "repair_fail"]

\* the failure recorded after every failing attempt (a plausible slip)
Retrying_fail_each_attempt(t, r) ==
    CASE r.pc = "returned" -> AfterRetryer(t, r)
      [] OTHER -> [t EXCEPT !.retryer = r, !.pc = "repair_fail"]

\* the task moves on as its retryer says
Retrying(t, r) ==
    CASE r.pc = "returned" -> AfterRetryer(t, r)
      [] r.pc = "sleep" -> [t EXCEPT !.retryer = r, !.pc = "sleep"]
      [] OTHER -> [t EXCEPT !.retryer = r, !.pc = "execute"]

----------------------------------------------------------------------------
\* Values of the variables a specification does not use

IdleTokens == TokenContainer(<<-1>>, <<-1>>)
IdleGen == [Generator(0, 0, 1) EXCEPT !.pc = "finished"]
IdleCfg == ExponentialBackoffRetryerConfig(1, 1, 2, 1800)
IdleRetryer == [RetryerCall(IdleCfg) EXCEPT !.pc = "returned"]
IdleOptions == [steps |-> 1]
IdleResume == [pc |-> "idle"]
IdleCall == [fn |-> "none"]
IdleRun ==
    /\ options = IdleOptions
    /\ status = RepairStatus
    /\ file = NoFile
    /\ main_pc = "idle"
    /\ token_num = 0
    /\ queue = <<>>
    /\ running = {}
    /\ task_log = {}
    /\ calls = [repair_start |-> 0, repair_success |-> 0, repair_fail |-> 0, finish |-> 0]

----------------------------------------------------------------------------
\* SpecGen: one sub_range_generator, any arguments, consumed to its end

GenInit ==
    /\ tokens \in {TokenContainer(<<-1>>, <<-1>>), TokenContainer(<<0>>, <<0>>)}
    /\ \E start \in RANGE_MIN(tokens)..RANGE_MAX(tokens),
          stop \in RANGE_MIN(tokens)..RANGE_MAX(tokens),
          steps \in 1..MaxSteps :
            gen = Generator(start, stop, steps)
    /\ emitted = <<>>
    /\ retry_cfg = IdleCfg
    /\ retryer = IdleRetryer
    /\ results = <<>>
    /\ slept = <<>>
    /\ IdleRun
    /\ resume = IdleResume
    /\ call = IdleCall

\* the consumer asks for the next element and gets one
ConsumeYield ==
    /\ gen.pc \notin {"finished", "raised"}
    /\ GenNext(tokens, gen).kind = "yield"
    /\ gen' = GenNext(tokens, gen).g
    /\ emitted' = Append(emitted, GenNext(tokens, gen).value)
    /\ UNCHANGED <<resumeVars, callVars, tokens, retryVars, runVars>>

\* the consumer asks for the next element and the generator is exhausted
ConsumeStop ==
    /\ gen.pc \notin {"finished", "raised"}
    /\ GenNext(tokens, gen).kind = "StopIteration"
    /\ gen' = GenNext(tokens, gen).g
    /\ UNCHANGED <<resumeVars, callVars, tokens, emitted, retryVars, runVars>>

\* the consumer asks for the next element and the generator raises
ConsumeRaise ==
    /\ gen.pc \notin {"finished", "raised"}
    /\ GenNext(tokens, gen).kind = "UnboundLocalError"
    /\ gen' = GenNext(tokens, gen).g
    /\ UNCHANGED <<resumeVars, callVars, tokens, emitted, retryVars, runVars>>

GenNextStep == ConsumeYield \/ ConsumeStop \/ ConsumeRaise

SpecGen == GenInit /\ [][GenNextStep]_vars

----------------------------------------------------------------------------
\* SpecRetry: one call of an ExponentialBackoffRetryer, any configuration and
\* any results of the executor

RetryInit ==
    /\ tokens = IdleTokens
    /\ gen = IdleGen
    /\ emitted = <<>>
    /\ \E max_tries \in 1..RetryMaxTries, initial_sleep \in InitialSleeps,
          sleep_factor \in SleepFactors, max_sleep \in MaxSleeps :
            retry_cfg = ExponentialBackoffRetryerConfig(max_tries, initial_sleep, sleep_factor, max_sleep)
    /\ retryer = RetryerCall(retry_cfg)
    /\ results = <<>>
    /\ slept = <<>>
    /\ IdleRun
    /\ resume = IdleResume
    /\ call = IdleCall

\* self.executor(*args, **kwargs) returns; the result carries the invocation's number
RetryExecute ==
    /\ retryer.pc = "call"
    /\ \E ok \in BOOLEAN :
        LET result == <<ok, Len(results) + 1>>
        IN  /\ results' = Append(results, result)
            /\ retryer' = AfterExecute(retry_cfg, retryer, result)
    /\ UNCHANGED <<resumeVars, callVars, genVars, retry_cfg, slept, runVars>>

\* self.sleeper(...) returns
RetrySleep ==
    /\ retryer.pc = "sleep"
    /\ slept' = Append(slept, SleepDuration(retry_cfg, retryer))
    /\ retryer' = AfterSleep(retry_cfg, retryer)
    /\ UNCHANGED <<resumeVars, callVars, genVars, retry_cfg, results, runVars>>

RetryNext == RetryExecute \/ RetrySleep

SpecRetry == RetryInit /\ [][RetryNext]_vars

----------------------------------------------------------------------------
\* Spec: a run of repair(options) from its first line to its last, or to the
\* exception that ends it

\* the ring tokens a run's ring is drawn from
RunTokens == {-4, 0, 1}
\* most host tokens of a run
MaxOwned == 2
\* largest --steps of a run
MaxRunSteps == 2
\* largest --workers of a run
MaxWorkers == 2
\* largest --max-tries of a run
MaxTries == 2

Options(steps, workers, dry_run, max_tries, output_status) ==
    [nodetool |-> <<"n", "o", "d", "e", "t", "o", "o", "l">>,
     host |-> <<"h">>, port |-> DefaultPort,
     username |-> <<>>, password |-> <<>>,
     keyspace |-> <<"k", "s">>, columnfamily |-> <<>>,
     local |-> <<>>, inc |-> FALSE, snapshot |-> <<>>,
     steps |-> steps, workers |-> workers, dry_run |-> dry_run,
     max_tries |-> max_tries, initial_sleep |-> DefaultInitialSleep,
     sleep_factor |-> DefaultSleepFactor, max_sleep |-> DefaultMaxSleep,
     output_status |-> output_status,
     offset |-> NotGiven, exclude_step |-> NotGiven]

Init ==
    /\ \E ring \in (SUBSET RunTokens) \ {{}} :
         \E host \in (SUBSET ring) \ {{}} :
            /\ Cardinality(host) <= MaxOwned
            /\ tokens = TokenContainer(Sorted(ring), Sorted(host))
    /\ gen = IdleGen
    /\ emitted = <<>>
    /\ retry_cfg = IdleCfg
    /\ retryer = IdleRetryer
    /\ results = <<>>
    /\ slept = <<>>
    /\ \E steps \in 1..MaxRunSteps, workers \in 1..MaxWorkers, dry_run \in BOOLEAN,
          max_tries \in 1..MaxTries, output_status \in BOOLEAN :
            \* a dry run builds no retryer: one value of max_tries stands for all
            /\ dry_run => max_tries = 1
            /\ options = Options(steps, workers, dry_run, max_tries, output_status)
    /\ status = RepairStatus
    /\ file = NoFile
    /\ main_pc = "start"
    /\ token_num = 0
    /\ queue = <<>>
    /\ running = {}
    /\ task_log = {}
    /\ calls = [repair_start |-> 0, repair_success |-> 0, repair_fail |-> 0, finish |-> 0]
    /\ resume = IdleResume
    /\ call = IdleCall

\* write() run in one piece: by repair() itself, while no task exists
Written(st) == IF st.filename THEN [st EXCEPT !.updated = Now] ELSE st
WrittenFile(st) == IF st.filename THEN Document(Written(st)) ELSE file

\* lines 552-556: the pool, the manager, repair_status.start(options)
MainStart ==
    /\ main_pc = "start"
    /\ status' = Written(StatusStart(status, options))
    /\ file' = WrittenFile(StatusStart(status, options))
    /\ main_pc' = "for"
    /\ UNCHANGED <<resumeVars, callVars, genVars, retryVars, options, token_num, queue, running, task_log, calls>>

\* OffsetSkips with the offset's node skipped as well (a plausible slip)
OffsetSkips_through_node(opts, num) == opts.offset # NotGiven /\ num < opts.offset[1].node

\* line 562: the host token is before the offset's node
OffsetSkips(opts, num) == opts.offset # NotGiven /\ num < opts.offset[1].node - 1

\* lines 558-568: a host token before the offset's node is passed over
MainSkipToken ==
    /\ main_pc = "for"
    /\ token_num < Len(tokens.host_tokens)
    /\ OffsetSkips(options, token_num)
    /\ token_num' = token_num + 1
    /\ UNCHANGED <<resumeVars, callVars, genVars, retryVars, options, status, file, main_pc, queue, running, task_log, calls>>

\* lines 558-585: the next host token, its range and the generator of its sub-ranges
MainForToken ==
    /\ main_pc = "for"
    /\ token_num < Len(tokens.host_tokens)
    /\ ~OffsetSkips(options, token_num)
    /\ LET range_termination == tokens.host_tokens[token_num + 1]
           range_start == get_preceding_token(tokens, range_termination)
       IN  gen' = Generator(range_start, range_termination, options.steps)
    /\ emitted' = <<>>
    /\ main_pc' = "submit"
    /\ UNCHANGED <<resumeVars, callVars, tokens, retryVars, options, status, file, token_num, queue, running, task_log, calls>>

\* the loop over the host tokens is over
MainForEnd ==
    /\ main_pc = "for"
    /\ token_num >= Len(tokens.host_tokens)
    /\ main_pc' = "finish"
    /\ UNCHANGED <<resumeVars, callVars, genVars, retryVars, options, status, file, token_num, queue, running, task_log, calls>>

\* lines 577-585: the comprehension takes a sub-range and gives its task to the pool
MainSubmit ==
    /\ main_pc = "submit"
    /\ GenNext(tokens, gen).kind = "yield"
    /\ gen' = GenNext(tokens, gen).g
    /\ emitted' = Append(emitted, GenNext(tokens, gen).value)
    /\ queue' = Append(queue, Task(options, GenNext(tokens, gen).value, token_num + 1))
    /\ UNCHANGED <<resumeVars, callVars, tokens, retryVars, options, status, file, main_pc, token_num, running, task_log, calls>>

\* the generator is exhausted: the comprehension is complete
MainSubmitted ==
    /\ main_pc = "submit"
    /\ GenNext(tokens, gen).kind = "StopIteration"
    /\ gen' = GenNext(tokens, gen).g
    /\ main_pc' = "join"
    /\ UNCHANGED <<resumeVars, callVars, tokens, emitted, retryVars, options, status, file, token_num, queue, running, task_log, calls>>

\* the generator raises: the exception leaves repair() and main()
MainRaise ==
    /\ main_pc = "submit"
    /\ GenNext(tokens, gen).kind = "UnboundLocalError"
    /\ gen' = GenNext(tokens, gen).g
    /\ main_pc' = "crashed"
    /\ UNCHANGED <<resumeVars, callVars, tokens, emitted, retryVars, options, status, file, token_num, queue, running, task_log, calls>>

\* the process ends on the exception, and its pool's workers with it
MainExit ==
    /\ main_pc = "crashed"
    /\ main_pc' = "exited"
    /\ UNCHANGED <<resumeVars, callVars, genVars, retryVars, options, status, file, token_num, queue, running, task_log, calls>>

\* the loop goes on without waiting for the results (a plausible slip)
MainJoin_no_wait ==
    /\ main_pc = "join"
    /\ token_num' = token_num + 1
    /\ main_pc' = "for"
    /\ UNCHANGED <<resumeVars, callVars, genVars, retryVars, options, status, file, queue, running, task_log, calls>>

\* the loop goes on once the pool's queue is empty, tasks still running (a plausible slip)
MainJoin_queue_only ==
    /\ main_pc = "join"
    /\ queue = <<>>
    /\ token_num' = token_num + 1
    /\ main_pc' = "for"
    /\ UNCHANGED <<resumeVars, callVars, genVars, retryVars, options, status, file, queue, running, task_log, calls>>

\* lines 586-587: r.get() has returned for every task of this host token
MainJoin ==
    /\ main_pc = "join"
    /\ queue = <<>>
    /\ running = {}
    /\ token_num' = token_num + 1
    /\ main_pc' = "for"
    /\ UNCHANGED <<resumeVars, callVars, genVars, retryVars, options, status, file, queue, running, task_log, calls>>

\* line 588: repair_status.finish()
MainFinish ==
    /\ main_pc = "finish"
    /\ status' = Written([status EXCEPT !.finished = Now])
    /\ file' = WrittenFile([status EXCEPT !.finished = Now])
    /\ main_pc' = "done"
    /\ calls' = [calls EXCEPT !.finish = @ + 1]
    /\ UNCHANGED <<resumeVars, callVars, genVars, retryVars, options, token_num, queue, running, task_log>>

PoolAlive == main_pc \notin {"start", "exited", "done"}

\* a task is taken whether or not a worker is idle (a plausible slip)
PoolTake_unbounded ==
    /\ PoolAlive
    /\ queue # <<>>
    /\ running' = running \cup {Head(queue)}
    /\ queue' = Tail(queue)
    /\ UNCHANGED <<resumeVars, callVars, genVars, retryVars, options, status, file, main_pc, token_num, task_log, calls>>

\* an idle worker of the pool takes the oldest task
PoolTake ==
    /\ PoolAlive
    /\ queue # <<>>
    /\ Cardinality(running) < options.workers
    /\ running' = running \cup {Head(queue)}
    /\ queue' = Tail(queue)
    /\ UNCHANGED <<resumeVars, callVars, genVars, retryVars, options, status, file, main_pc, token_num, task_log, calls>>

\* what task_log keeps of a task that returned
LogEntry(t) ==
    [node |-> t.node, step |-> t.step, nodeposition |-> t.nodeposition,
     excluded |-> t.excluded, subtasks |-> t.subtasks, raised |-> t.raised,
     started_cmd |-> t.started_cmd, invocations |-> t.invocations, success |-> t.success]

\* task t becomes t2; when t2 is at its return, repair_range returns and the
\* worker is idle again, unless the return is that of a _repair_range called
\* from the loop of lines 431-449, which then goes on
Step(t, t2) ==
    IF t2.pc = "return" /\ ~t2.expanding
    THEN /\ running' = running \ {t}
         /\ task_log' = task_log \cup {LogEntry(t2)}
    ELSE /\ running' = (running \ {t})
                       \cup {IF t2.pc = "return" THEN [t2 EXCEPT !.pc = "expand"] ELSE t2}
         /\ task_log' = task_log

\* TaskClassify with the return of line 425 left out (a plausible slip)
TaskClassify_no_return ==
    /\ PoolAlive
    /\ \E t \in running :
        /\ t.pc = "repair_range"
        /\ LET excluded == is_excluded(options, t.start, t.end, t.step, t.nodeposition)
           IN  Step(t, [t EXCEPT !.excluded = excluded,
                                 !.expanding = (excluded = SKIP_KEYSPACE),
                                 !.pc = IF excluded = SKIP_KEYSPACE THEN "enumerate"
                                        ELSE "start"])
    /\ UNCHANGED <<resumeVars, callVars, genVars, retryVars, options, status, file, main_pc, token_num, queue, calls>>

\* repair_range, lines 415-426 and 452: the range is skipped, expanded or repaired
TaskClassify ==
    /\ PoolAlive
    /\ \E t \in running :
        /\ t.pc = "repair_range"
        /\ LET excluded == is_excluded(options, t.start, t.end, t.step, t.nodeposition)
           IN  Step(t, [t EXCEPT !.excluded = excluded,
                                 !.expanding = (excluded = SKIP_KEYSPACE),
                                 !.pc = IF excluded = SKIP_ENTIRE_STEP THEN "return"
                                        ELSE IF excluded = SKIP_KEYSPACE THEN "enumerate"
                                        ELSE "start"])
    /\ UNCHANGED <<resumeVars, callVars, genVars, retryVars, options, status, file, main_pc, token_num, queue, calls>>

\* line 431: enumerate_keyspaces runs `nodetool cfstats` and raises when it
\* fails; its dict has iteritems() under Python 2 only. The keyspaces come in
\* the dict's order. An exception ends the task.
TaskEnumerate ==
    /\ PoolAlive
    /\ call.fn = "repair_range"
    /\ \E t \in running, success \in BOOLEAN :
        /\ t.pc = "enumerate"
        /\ Step(t, IF ~success
                   THEN [t EXCEPT !.pc = "return", !.expanding = FALSE, !.raised = "Exception"]
                   ELSE IF ~call.args.iteritems
                   THEN [t EXCEPT !.pc = "return", !.expanding = FALSE, !.raised = "AttributeError"]
                   ELSE [t EXCEPT !.pc = "expand", !.todo = call.args.keyspaces])
    /\ UNCHANGED <<resumeVars, callVars, genVars, retryVars, options, status, file, main_pc, token_num, queue, calls>>

\* cf_to_repair, line 437
Without(column_families, column_family) ==
    SelectSeq(column_families, LAMBDA cf : cf # column_family)

\* the task set to run _repair_range for one keyspace of the loop
SubTask(t, opts, keyspace, column_families) ==
    [t EXCEPT !.todo = Tail(@),
              !.keyspace = keyspace, !.column_families = column_families,
              !.cmd = CmdList(RepairCommand(opts, t.start, t.end, keyspace, column_families)),
              !.retryer = RetryerCall(RetryOptions(opts)),
              !.subtasks = Append(@, [keyspace |-> keyspace,
                                      column_families |-> column_families,
                                      cmd |-> RepairCommand(opts, t.start, t.end,
                                                            keyspace, column_families)]),
              !.pc = "start"]

\* lines 431-450: the loop over the keyspaces
TaskExpand ==
    /\ PoolAlive
    /\ \E t \in running :
        /\ t.pc = "expand"
        /\ Step(t, IF t.todo = <<>>
                   THEN [t EXCEPT !.pc = "return", !.expanding = FALSE]
                   ELSE IF Head(t.todo).keyspace = options.exclude_step[1].keyspace
                   THEN IF options.exclude_step[1].column_family # <<>>
                        THEN SubTask(t, options, Head(t.todo).keyspace,
                                     Without(Head(t.todo).column_families,
                                             options.exclude_step[1].column_family))
                        ELSE [t EXCEPT !.todo = Tail(@)]
                   ELSE SubTask(t, options, Head(t.todo).keyspace, options.columnfamily))
    /\ UNCHANGED <<resumeVars, callVars, genVars, retryVars, options, status, file, main_pc, token_num, queue, calls>>

\* _repair_range to line 491 and repair_start's line 298
TaskRepairStart ==
    /\ PoolAlive
    /\ \E t \in running :
        /\ t.pc = "start"
        /\ status' = [status EXCEPT !.current_repair = TaskDict(t)]
        /\ Step(t, [t EXCEPT !.pc = "write",
                             !.ret = IF options.dry_run THEN "repair_success" ELSE "execute",
                             !.started_cmd = TaskDict(t).cmd])
        /\ calls' = [calls EXCEPT !.repair_start = @ + 1]
    /\ UNCHANGED <<resumeVars, callVars, genVars, retryVars, options, file, main_pc, token_num, queue>>

\* write(), lines 346-357: updated, the file opened, the document dumped
TaskWrite ==
    /\ PoolAlive
    /\ \E t \in running :
        /\ t.pc = "write"
        /\ IF status.filename
           THEN /\ status' = [status EXCEPT !.updated = Now]
                /\ Step(t, [t EXCEPT !.pc = "write_file", !.snapshot = Document(status')])
           ELSE /\ status' = status
                /\ Step(t, [t EXCEPT !.pc = t.ret])
    /\ UNCHANGED <<resumeVars, callVars, genVars, retryVars, options, file, main_pc, token_num, queue, calls>>

\* write(), lines 349-358: the document reaches the file
TaskWriteFile ==
    /\ PoolAlive
    /\ \E t \in running :
        /\ t.pc = "write_file"
        /\ file' = t.snapshot
        /\ Step(t, [t EXCEPT !.pc = t.ret, !.snapshot = NoFile])
    /\ UNCHANGED <<resumeVars, callVars, genVars, retryVars, options, status, main_pc, token_num, queue, calls>>

\* the retryer runs run_command once: the external command succeeds or fails
TaskExecute ==
    /\ PoolAlive
    /\ \E t \in running, ok \in BOOLEAN :
        /\ t.pc = "execute"
        /\ LET result == <<ok, CommandString(t.cmd.v)>>
           IN  Step(t, Retrying([t EXCEPT !.invocations = @ + 1],
                                AfterExecute(RetryOptions(options), t.retryer, result)))
    /\ UNCHANGED <<resumeVars, callVars, genVars, retryVars, options, status, file, main_pc, token_num, queue, calls>>

\* the retryer's sleep is over
TaskSleep ==
    /\ PoolAlive
    /\ \E t \in running :
        /\ t.pc = "sleep"
        /\ Step(t, Retrying(t, AfterSleep(RetryOptions(options), t.retryer)))
    /\ UNCHANGED <<resumeVars, callVars, genVars, retryVars, options, status, file, main_pc, token_num, queue, calls>>

\* repair_fail, lines 313-315: the entry appended
TaskRepairFail ==
    /\ PoolAlive
    /\ \E t \in running :
        /\ t.pc = "repair_fail"
        /\ status' = [status EXCEPT !.failed_repairs = Append(@, TaskDict(t))]
        /\ Step(t, [t EXCEPT !.pc = "fail_load"])
        /\ calls' = [calls EXCEPT !.repair_fail = @ + 1]
    /\ UNCHANGED <<resumeVars, callVars, genVars, retryVars, options, file, main_pc, token_num, queue>>

\* repair_fail, line 316: self.failed_count read
TaskFailLoad ==
    /\ PoolAlive
    /\ \E t \in running :
        /\ t.pc = "fail_load"
        /\ Step(t, [t EXCEPT !.pc = "fail_store", !.tmp = status.failed_count])
    /\ UNCHANGED <<resumeVars, callVars, genVars, retryVars, options, status, file, main_pc, token_num, queue, calls>>

\* repair_fail, line 316: self.failed_count stored
TaskFailStore ==
    /\ PoolAlive
    /\ \E t \in running :
        /\ t.pc = "fail_store"
        /\ status' = [status EXCEPT !.failed_count = t.tmp + 1]
        /\ Step(t, [t EXCEPT !.pc = "write", !.ret = "return", !.tmp = 0])
    /\ UNCHANGED <<resumeVars, callVars, genVars, retryVars, options, file, main_pc, token_num, queue, calls>>

\* dry run, line 500: repair_success, line 331: self.successful_count read
TaskSuccessLoad ==
    /\ PoolAlive
    /\ \E t \in running :
        /\ t.pc = "repair_success"
        /\ Step(t, [t EXCEPT !.pc = "success_store", !.tmp = status.successful_count])
        /\ calls' = [calls EXCEPT !.repair_success = @ + 1]
    /\ UNCHANGED <<resumeVars, callVars, genVars, retryVars, options, status, file, main_pc, token_num, queue>>

\* repair_success, line 331: self.successful_count stored; line 502 follows the call
TaskSuccessStore ==
    /\ PoolAlive
    /\ \E t \in running :
        /\ t.pc = "success_store"
        /\ status' = [status EXCEPT !.successful_count = t.tmp + 1]
        /\ Step(t, [t EXCEPT !.pc = "write", !.ret = "return", !.tmp = 0, !.success = TRUE])
    /\ UNCHANGED <<resumeVars, callVars, genVars, retryVars, options, file, main_pc, token_num, queue, calls>>

Next ==
    \/ MainStart \/ MainForToken \/ MainForEnd \/ MainSubmit \/ MainSubmitted
    \/ MainRaise \/ MainExit \/ MainJoin \/ MainFinish
    \/ PoolTake \/ TaskRepairStart \/ TaskWrite \/ TaskWriteFile
    \/ TaskExecute \/ TaskSleep
    \/ TaskRepairFail \/ TaskFailLoad \/ TaskFailStore
    \/ TaskSuccessLoad \/ TaskSuccessStore

Spec == Init /\ [][Next]_vars

\* the operating system runs every process that can take a step, and every
\* external command returns
SpecLive == Init /\ [][Next]_vars /\ WF_vars(Next)

----------------------------------------------------------------------------
\* repair_failed_ranges.py: the failed entries of a status file run again

\* most failed entries of a loaded status whose commands may succeed or fail
MaxFailed == 3
\* most failed entries of a loaded status whose commands all fail again
MaxStillFailing == 257
\* width in bits of a process's exit status
ExitStatusBits == 8

\* a timestamp of the run that wrote the loaded status
Then == "then"

\* an entry of failed_repairs as loaded; the script reads its cmd and sets its time
FailedEntry(k) ==
    [time |-> Then, step |-> k, nodeposition |-> NodePosition(1, 1),
     cmd |-> <<"r", "e", "p", "a", "i", "r", " ">> \o IntStr(k)]

\* json.load(f): the status object of an earlier run
LoadedStatus(n, finished, successful_count) ==
    [started |-> Then, updated |-> Then, finished |-> finished,
     failed_repairs |-> [k \in 1..n |-> FailedEntry(k)],
     current_repair |-> IF n = 0 THEN <<>> ELSE FailedEntry(n),
     successful_count |-> successful_count, failed_count |-> n]

\* write_status: updated is set, and the whole object dumped
write_status(st) == [st EXCEPT !.updated = Now]

\* lines 63-66: the finished timestamp cleared
ClearFinished(st) == [st EXCEPT !.finished = None]

\* the entry taken without failed_count being decremented (a plausible slip)
TakeEntry_count_kept(st, failed_repair) ==
    [st EXCEPT !.failed_repairs = Tail(@),
               !.current_repair = [failed_repair EXCEPT !.time = Now]]

\* lines 76-81: the first entry removed from the status object, the copy
\* stamped and made the current repair
TakeEntry(st, failed_repair) ==
    [st EXCEPT !.failed_repairs = Tail(@),
               !.failed_count = @ - 1,
               !.current_repair = [failed_repair EXCEPT !.time = Now]]

\* the entry that failed again put back at the head of the list (a plausible slip)
AfterCommand_prepended(st, failed_repair, success) ==
    IF success
    THEN [st EXCEPT !.successful_count = @ + 1]
    ELSE [st EXCEPT !.failed_count = @ + 1,
                    !.failed_repairs = <<failed_repair>> \o @]

\* the command's outcome handled without putting the entry back (a plausible slip)
AfterCommand_not_reappended(st, failed_repair, success) ==
    IF success
    THEN [st EXCEPT !.successful_count = @ + 1]
    ELSE [st EXCEPT !.failed_count = @ + 1]

\* lines 87-96: the command's outcome
AfterCommand(st, failed_repair, success) ==
    IF success
    THEN [st EXCEPT !.successful_count = @ + 1]
    ELSE [st EXCEPT !.failed_count = @ + 1,
                    !.failed_repairs = Append(@, failed_repair)]

\* line 85: the command run_command is given
ResumeCommand(failed_repair) == failed_repair.cmd

\* line 98: the finished timestamp
StampFinished(st) == [st EXCEPT !.finished = Now]

\* exit(num_failed): the status the parent process sees
ExitStatus(num_failed) == num_failed % (2 ^ ExitStatusBits)

\* the script's state once the status file is loaded
Resume(st, outcomes_allowed) ==
    [pc |-> "main", status |-> st, file |-> st, loaded |-> st,
     failed_repairs |-> <<>>, i |-> 0,
     allowed |-> outcomes_allowed, outcomes |-> <<>>, written |-> 0,
     deleted |-> <<>>, commands |-> <<>>,
     num_failed |-> -1, exit_status |-> -1]

ResumeInit ==
    /\ tokens = IdleTokens
    /\ gen = IdleGen
    /\ emitted = <<>>
    /\ retry_cfg = IdleCfg
    /\ retryer = IdleRetryer
    /\ results = <<>>
    /\ slept = <<>>
    /\ IdleRun
    /\ call = IdleCall
    /\ \/ \E n \in 0..MaxFailed, finished \in {None, Then}, successful_count \in {0, 2} :
            resume = Resume(LoadedStatus(n, finished, successful_count), BOOLEAN)
       \/ \E n \in ((2 ^ ExitStatusBits) - 1)..MaxStillFailing :
            resume = Resume(LoadedStatus(n, Then, 0), {FALSE})

\* repair_failed_ranges is called and there are failed entries: lines 63-70
ResumeBegin ==
    /\ resume.pc = "main"
    /\ Len(resume.status.failed_repairs) > 0
    /\ LET st == write_status(ClearFinished(resume.status))
       IN  resume' = [resume EXCEPT !.pc = "for", !.status = st, !.file = st,
                                    !.written = @ + 1,
                                    !.failed_repairs = st.failed_repairs]
    /\ UNCHANGED <<genVars, retryVars, runVars, callVars>>

\* repair_failed_ranges is called and there is no failed entry: lines 101-103
ResumeNothing ==
    /\ resume.pc = "main"
    /\ ~(Len(resume.status.failed_repairs) > 0)
    /\ resume' = [resume EXCEPT !.pc = "returned",
                                !.num_failed = Len(resume.status.failed_repairs)]
    /\ UNCHANGED <<genVars, retryVars, runVars, callVars>>

\* lines 72-82: the next entry of the copy
ResumeNext ==
    /\ resume.pc = "for"
    /\ resume.i < Len(resume.failed_repairs)
    /\ LET st == write_status(TakeEntry(resume.status, resume.failed_repairs[resume.i + 1]))
       IN  resume' = [resume EXCEPT !.pc = "run", !.status = st, !.file = st,
                                    !.written = @ + 1,
                                    !.deleted = Head(resume.status.failed_repairs),
                                    !.failed_repairs[resume.i + 1].time = Now]
    /\ UNCHANGED <<genVars, retryVars, runVars, callVars>>

\* lines 85-97: run_command returns, the status object is updated and written
ResumeRun ==
    /\ resume.pc = "run"
    /\ \E success \in resume.allowed :
        LET st == write_status(AfterCommand(resume.status,
                                            resume.failed_repairs[resume.i + 1], success))
        IN  resume' = [resume EXCEPT !.pc = "for", !.status = st, !.file = st,
                                     !.written = @ + 1,
                                     !.i = @ + 1, !.outcomes = Append(@, success),
                                     !.commands = Append(@, ResumeCommand(
                                                     resume.failed_repairs[resume.i + 1]))]
    /\ UNCHANGED <<genVars, retryVars, runVars, callVars>>

\* lines 98-103: the loop is over
ResumeFinish ==
    /\ resume.pc = "for"
    /\ ~(resume.i < Len(resume.failed_repairs))
    /\ LET st == write_status(StampFinished(resume.status))
       IN  resume' = [resume EXCEPT !.pc = "returned", !.status = st, !.file = st,
                                    !.written = @ + 1,
                                    !.num_failed = Len(st.failed_repairs)]
    /\ UNCHANGED <<genVars, retryVars, runVars, callVars>>

\* line 149: exit(num_failed)
ResumeExit ==
    /\ resume.pc = "returned"
    /\ resume' = [resume EXCEPT !.pc = "exited",
                                !.exit_status = ExitStatus(resume.num_failed)]
    /\ UNCHANGED <<genVars, retryVars, runVars, callVars>>

ResumeStep ==
    \/ ResumeBegin \/ ResumeNothing \/ ResumeNext \/ ResumeRun
    \/ ResumeFinish \/ ResumeExit

SpecResume == ResumeInit /\ [][ResumeStep]_vars

\* SpecLedger: the status file as a serial run of repair() writes it, and as
\* repair_failed_ranges.py rewrites it
SerialInit == Init /\ options.workers = 1
LedgerInit == SerialInit \/ ResumeInit
LedgerNext == Next \/ ResumeStep
SpecLedger == LedgerInit /\ [][LedgerNext]_vars

----------------------------------------------------------------------------
\* SpecCall: one call of get_preceding_token, of format or of is_excluded,
\* with any arguments

\* the tokens a ring given to get_preceding_token is drawn from
CallRingTokens == {-5, -1, 0, 2, 6}
\* most host tokens and most steps of the runs is_excluded is called in
MaxNode == 2
MaxStep == 3

KeyspaceNames == {<<"k", "s">>, <<"k", "2">>}

\* the values of --exclude-step and of --offset
ExcludeStepValues ==
    {Join(<<IntStr(n), IntStr(st)>>, <<",">>) : n \in 1..MaxNode, st \in 1..MaxStep}
    \cup {Join(<<<<"k", "s">>, IntStr(n), IntStr(st)>>, <<",">>) : n \in 1..MaxNode, st \in 1..MaxStep}
    \cup {Join(<<<<"k", "s">>, <<"c", "f">>, IntStr(n), IntStr(st)>>, <<",">>) : n \in 1..MaxNode, st \in 1..MaxStep}
OffsetValues ==
    {Join(<<IntStr(n), IntStr(st)>>, <<",">>) : n \in 1..MaxNode, st \in 1..MaxStep}
    \cup {IntStr(n) : n \in 1..MaxNode}

\* the options is_excluded reads
ExcludeOptions(offset, exclude_step, keyspace) ==
    [offset |-> offset, exclude_step |-> exclude_step, keyspace |-> keyspace]

Call(fn, args) == [fn |-> fn, args |-> args, pc |-> "called", result |-> <<>>]

CallInit ==
    /\ tokens = IdleTokens
    /\ gen = IdleGen
    /\ emitted = <<>>
    /\ retry_cfg = IdleCfg
    /\ retryer = IdleRetryer
    /\ results = <<>>
    /\ slept = <<>>
    /\ IdleRun
    /\ resume = IdleResume
    /\ \/ \E ring \in (SUBSET CallRingTokens) \ {{}}, token \in -6..7 :
            call = Call("get_preceding_token",
                        [tc |-> TokenContainer(Sorted(ring), <<>>), token |-> token])
       \/ \E tc \in {TokenContainer(<<-1>>, <<>>), TokenContainer(<<0>>, <<>>)} :
            \E value \in RANGE_MIN(tc)..RANGE_MAX(tc) :
                call = Call("format", [tc |-> tc, value |-> value])
       \/ \E offset \in {NotGiven} \cup {<<parse_offset(v)>> : v \in OffsetValues},
             exclude_step \in {NotGiven} \cup {<<parse_exclude_step(v)>> : v \in ExcludeStepValues},
             keyspace \in {<<>>} \cup KeyspaceNames,
             step \in 1..MaxStep, count \in 1..MaxNode :
                call = Call("is_excluded",
                            [options |-> ExcludeOptions(offset, exclude_step, keyspace),
                             step |-> step, count |-> count,
                             nodeposition |-> NodePosition(count, MaxNode)])

CallGetPrecedingToken ==
    /\ call.fn = "get_preceding_token"
    /\ call.pc = "called"
    /\ call' = [call EXCEPT !.pc = "returned",
                            !.result = get_preceding_token(call.args.tc, call.args.token)]
    /\ UNCHANGED <<genVars, retryVars, runVars, resumeVars>>

CallFormat ==
    /\ call.fn = "format"
    /\ call.pc = "called"
    /\ call' = [call EXCEPT !.pc = "returned",
                            !.result = Format(call.args.tc, call.args.value)]
    /\ UNCHANGED <<genVars, retryVars, runVars, resumeVars>>

CallIsExcluded ==
    /\ call.fn = "is_excluded"
    /\ call.pc = "called"
    /\ call' = [call EXCEPT !.pc = "returned",
                            !.result = is_excluded(call.args.options, <<>>, <<>>,
                                                   call.args.step, call.args.nodeposition)]
    /\ UNCHANGED <<genVars, retryVars, runVars, resumeVars>>

CallStep == CallGetPrecedingToken \/ CallFormat \/ CallIsExcluded

SpecCall == CallInit /\ [][CallStep]_vars

----------------------------------------------------------------------------
\* Runs and tasks with --offset and --exclude-step

\* everything a generator yields before it ends, whichever way it ends
RECURSIVE Drain(_, _)
Drain(tc, g) ==
    LET r == GenNext(tc, g)
    IN  IF r.kind = "yield" THEN <<r.value>> \o Drain(tc, r.g) ELSE <<>>

\* the options of a run with the three options is_excluded reads
RunOptions(opts, keyspace, offset, exclude_step) ==
    [opts EXCEPT !.keyspace = keyspace, !.offset = offset, !.exclude_step = exclude_step]

\* main(), lines 790-797: the options parsed, or left as None
Offsets == {NotGiven} \cup {<<parse_offset(v)>> : v \in OffsetValues}
ExcludeSteps == {NotGiven} \cup {<<parse_exclude_step(v)>> : v \in ExcludeStepValues}

\* repair() of a run with an offset
OffsetInit ==
    /\ \E ring \in (SUBSET RunTokens) \ {{}} :
         \E host \in (SUBSET ring) \ {{}} :
            /\ Cardinality(host) <= MaxOwned
            /\ tokens = TokenContainer(Sorted(ring), Sorted(host))
    /\ gen = IdleGen
    /\ emitted = <<>>
    /\ retry_cfg = IdleCfg
    /\ retryer = IdleRetryer
    /\ results = <<>>
    /\ slept = <<>>
    /\ \E steps \in 1..MaxRunSteps, workers \in 1..MaxWorkers, dry_run \in BOOLEAN,
          max_tries \in 1..MaxTries, output_status \in BOOLEAN,
          offset \in Offsets \ {NotGiven} :
            /\ dry_run => max_tries = 1
            /\ options = RunOptions(Options(steps, workers, dry_run, max_tries, output_status),
                                    <<"k", "s">>, offset, NotGiven)
    /\ status = RepairStatus
    /\ file = NoFile
    /\ main_pc = "start"
    /\ token_num = 0
    /\ queue = <<>>
    /\ running = {}
    /\ task_log = {}
    /\ calls = [repair_start |-> 0, repair_success |-> 0, repair_fail |-> 0, finish |-> 0]
    /\ resume = IdleResume
    /\ call = IdleCall

OffsetNext == Next \/ MainSkipToken \/ TaskClassify

SpecOffset == OffsetInit /\ [][OffsetNext]_vars

\* the ring of the node whose task is followed, and the host tokens it owns
TaskTokens == TokenContainer(<<-8, -4, 0>>, <<-4, 0>>)

\* the sub-ranges of each host token of TaskTokens
TaskSubRanges ==
    [node \in 1..Len(TaskTokens.host_tokens) |->
        Drain(TaskTokens, Generator(get_preceding_token(TaskTokens, TaskTokens.host_tokens[node]),
                                    TaskTokens.host_tokens[node], MaxStep))]

\* what `nodetool cfstats` lists: keyspaces and their column families, in the
\* order in which the dict of enumerate_keyspaces gives them
Listed(keyspace, column_families) ==
    [keyspace |-> keyspace, column_families |-> column_families]
ColumnFamilyLists == {<<<<"c", "f">>>>, <<<<"c", "f">>, <<"c", "2">>>>, <<<<"c", "2">>>>}
KeyspaceEnumerations ==
    UNION {{<<Listed(<<"k", "s">>, cfs)>>,
            <<Listed(<<"k", "s">>, cfs), Listed(<<"k", "2">>, <<<<"c", "f">>>>)>>,
            <<Listed(<<"k", "2">>, <<<<"c", "f">>>>), Listed(<<"k", "s">>, cfs)>>} :
           cfs \in ColumnFamilyLists}

\* one task of a run's pool: repair_range called for one sub-range of a host
\* token, the ledger started, repair() waiting for the result; not a dry run
TaskInit ==
    /\ tokens = TaskTokens
    /\ gen = IdleGen
    /\ emitted = <<>>
    /\ retry_cfg = IdleCfg
    /\ retryer = IdleRetryer
    /\ results = <<>>
    /\ slept = <<>>
    /\ \E keyspace \in {<<>>} \cup KeyspaceNames, offset \in Offsets,
          exclude_step \in ExcludeSteps, max_tries \in 1..MaxTries,
          node \in DOMAIN TaskSubRanges, step \in 1..MaxStep :
        LET opts == RunOptions(Options(MaxStep, 1, FALSE, max_tries, TRUE),
                               keyspace, offset, exclude_step)
            sub_ranges == TaskSubRanges[node]
            expands == is_excluded(opts, <<>>, <<>>, step,
                                   NodePosition(node, Len(tokens.host_tokens)))
                         = SKIP_KEYSPACE
        IN  /\ offset # NotGiven \/ exclude_step # NotGiven
            /\ step <= Len(sub_ranges)
            /\ options = opts
            /\ status = Written(StatusStart(RepairStatus, opts))
            /\ file = Document(Written(StatusStart(RepairStatus, opts)))
            /\ token_num = node - 1
            /\ running = {Task(opts, sub_ranges[step], node)}
            \* the listing is read only by the loop of lines 431-449: one
            \* listing stands for all when the loop is not entered
            /\ \E keyspaces \in IF expands THEN KeyspaceEnumerations
                                ELSE {<<Listed(<<"k", "s">>, <<<<"c", "f">>>>)>>},
                  iteritems \in IF expands THEN BOOLEAN ELSE {TRUE} :
                 call = Call("repair_range", [keyspaces |-> keyspaces, iteritems |-> iteritems])
    /\ main_pc = "join"
    /\ queue = <<>>
    /\ task_log = {}
    /\ calls = [repair_start |-> 0, repair_success |-> 0, repair_fail |-> 0, finish |-> 0]
    /\ resume = IdleResume

TaskNext ==
    \/ TaskClassify \/ TaskEnumerate \/ TaskExpand
    \/ TaskRepairStart \/ TaskWrite \/ TaskWriteFile
    \/ TaskExecute \/ TaskSleep
    \/ TaskRepairFail \/ TaskFailLoad \/ TaskFailStore

SpecTask == TaskInit /\ [][TaskNext]_vars

----------------------------------------------------------------------------
\* Properties of sub_range_generator (SpecGen)

GenEnded == gen.pc \in {"finished", "raised"}
NonWrapping == gen.stop > gen.start
\* the whole-range branch of either regime
Degenerate ==
    IF NonWrapping
    THEN gen.stop - gen.start < gen.steps
    ELSE WrapDistance(tokens, gen.start, gen.stop) <= gen.steps - 1
WholeRange == [start |-> Format(tokens, gen.start), end |-> Format(tokens, gen.stop), step |-> 1]

\* each sub-range starts where the one before it ended
Chained == \A i \in 1..(Len(emitted) - 1) : emitted[i + 1].start = emitted[i].end
StartsAtStart == emitted # <<>> => emitted[1].start = Format(tokens, gen.start)
EndsAtStop == emitted # <<>> /\ emitted[Len(emitted)].end = Format(tokens, gen.stop)
Width(i) == longish(emitted[i].end) - longish(emitted[i].start)

\* C2: in the degenerate case of either regime the generator yields exactly the
\* one sub-range (format(start), format(end), 1) and is then exhausted normally:
\* asking for the next element raises no error.
C2_DegenerateExhaustsNormally ==
    Degenerate =>
        /\ gen.pc # "raised"
        /\ \/ emitted = <<>>
           \/ emitted = <<WholeRange>>
        /\ gen.pc = "finished" => emitted = <<WholeRange>>

\* C3: for start < end the emitted sub-ranges form a chain of strictly
\* increasing boundaries from format(start) to format(end); when
\* end - start >= steps there are exactly `steps` of them, the first steps-1 of
\* width (end - start) div steps and the last taking the remainder.
C3_NonWrappingPartition ==
    NonWrapping =>
        /\ Chained
        /\ StartsAtStart
        /\ \A i \in 1..Len(emitted) : longish(emitted[i].start) < longish(emitted[i].end)
        /\ GenEnded => EndsAtStop
        /\ (gen.stop - gen.start >= gen.steps /\ GenEnded) =>
              /\ gen.pc = "finished"
              /\ Len(emitted) = gen.steps
              /\ \A i \in 1..(gen.steps - 1) :
                    Width(i) = (gen.stop - gen.start) \div gen.steps
              /\ Width(gen.steps) =
                    (gen.stop - gen.start) - (gen.steps - 1) * ((gen.stop - gen.start) \div gen.steps)

C3_Witness ==
    /\ NonWrapping
    /\ gen.pc = "finished"
    /\ gen.steps >= 3
    /\ Len(emitted) = gen.steps
    /\ (gen.stop - gen.start) % gen.steps # 0
    /\ Width(gen.steps) > Width(1)

\* the tokens of the ring interval (start, stop] that crosses the ring's end
RingInterval(tc, start, stop) ==
    {t \in RANGE_MIN(tc)..RANGE_MAX(tc) : t > start \/ t <= stop}
\* token t lies in the sub-range (a, b], which wraps when b <= a
InSubRange(t, a, b) == IF a < b THEN a < t /\ t <= b ELSE t > a \/ t <= b

\* C4: in the wrap-around regime with distance > steps - 1 the generator emits
\* at least one sub-range, the first starting at format(start), the last ending
\* at format(end), each starting where the one before ended, and every token of
\* the ring interval (start, end] lies in exactly one of them.
C4_WrapAroundPartition ==
    (~NonWrapping /\ WrapDistance(tokens, gen.start, gen.stop) > gen.steps - 1 /\ GenEnded) =>
        /\ Len(emitted) >= 1
        /\ StartsAtStart
        /\ EndsAtStop
        /\ Chained
        /\ \A t \in RingInterval(tokens, gen.start, gen.stop) :
              Cardinality({i \in 1..Len(emitted) :
                  InSubRange(t, longish(emitted[i].start), longish(emitted[i].end))}) = 1

\* C5: in both regimes at most `steps` sub-ranges are emitted, with step
\* indices 1, 2, ..., k in emission order.
C5_AtMostStepsSubRanges ==
    /\ Len(emitted) <= gen.steps
    /\ \A i \in 1..Len(emitted) : emitted[i].step = i

----------------------------------------------------------------------------
\* Properties of ExponentialBackoffRetryer (SpecRetry)

FirstSuccess == {k \in 1..Len(results) : SuccessChecker(results[k]) /\ \A j \in 1..(k - 1) : ~SuccessChecker(results[j])}

\* C7: with max_tries >= 1 the executor is invoked exactly min(max_tries, k)
\* times, k the first successful attempt; nothing is invoked after a success;
\* the value returned is the result of the last invocation.
C7_RetryerInvocations ==
    /\ Len(results) <= retry_cfg.max_tries
    /\ \A j \in 1..(Len(results) - 1) : ~SuccessChecker(results[j])
    /\ retryer.pc = "returned" =>
          /\ Len(results) >= 1
          /\ retryer.result = results[Len(results)]
          /\ \/ FirstSuccess = {Len(results)}
             \/ FirstSuccess = {} /\ Len(results) = retry_cfg.max_tries

C7_Witness ==
    /\ retryer.pc = "returned"
    /\ retry_cfg.max_tries = 4
    /\ Len(results) = 3
    /\ SuccessChecker(retryer.result)

\* the duration the j-th sleep is to have
ExpectedSleep(j) ==
    LET uncapped == retry_cfg.initial_sleep * (retry_cfg.sleep_factor ^ (j - 1))
    IN  IF retry_cfg.max_sleep > 0 /\ uncapped > retry_cfg.max_sleep
        THEN retry_cfg.max_sleep
        ELSE uncapped

\* C8: one sleep between every two consecutive invocations and none after the
\* last; the j-th lasts initial_sleep * sleep_factor^(j-1), replaced by
\* max_sleep when max_sleep > 0 and smaller; never capped when max_sleep <= 0.
C8_SleepSchedule ==
    /\ retryer.pc = "call" => Len(slept) = Len(results)
    /\ retryer.pc \in {"sleep", "returned"} => Len(slept) = Len(results) - 1
    /\ \A j \in 1..Len(slept) : slept[j] = ExpectedSleep(j)

C8_Witness ==
    /\ retryer.pc = "returned"
    /\ Len(results) = 4
    /\ Len(slept) = 3
    /\ retry_cfg.max_sleep = 5
    /\ slept[2] < 5
    /\ slept[3] = 5
    /\ retryer.next_sleep > 5

----------------------------------------------------------------------------
\* Properties of a run of repair() (Spec)

Succeeded == {e \in task_log : e.success}
Exhausted == {e \in task_log : ~e.success}

\* C1: when a run that is not a dry run completes, successful_count is the
\* number of tasks whose command finally succeeded and failed_count the number
\* of tasks whose retries were exhausted, so the two add up to the number of
\* tasks executed.
C1_CountsMatchOutcomes ==
    (main_pc = "done" /\ ~options.dry_run) =>
        /\ status.successful_count = Cardinality(Succeeded)
        /\ status.failed_count = Cardinality(Exhausted)
        /\ status.successful_count + status.failed_count = Cardinality(task_log)

\* the tasks that have recorded their start, returned or not
StartedTasks == task_log \cup {LogEntry(t) : t \in {r \in running : r.pc # "start"}}

\* C6: the cmd of an entry of failed_repairs is the command string the same
\* task's repair_start recorded in current_repair.
C6_FailedCmdIsStartedCmd ==
    ~options.dry_run =>
        \A i \in 1..Len(status.failed_repairs) :
            \A t \in StartedTasks :
                (/\ t.nodeposition = status.failed_repairs[i].nodeposition
                 /\ t.step = status.failed_repairs[i].step)
                => status.failed_repairs[i].cmd = t.started_cmd

\* C9: with more than one worker, once every task has completed, failed_count
\* and the length of failed_repairs are the number of repair_fail calls,
\* successful_count is the number of repair_success calls, and the document
\* last written is the ledger's state.
C9_LedgerSerialized ==
    (options.workers > 1 /\ main_pc \in {"finish", "done"}) =>
        /\ status.failed_count = calls.repair_fail
        /\ Len(status.failed_repairs) = calls.repair_fail
        /\ status.successful_count = calls.repair_success
        /\ status.filename => file = Document(status)

\* the sub-ranges of the n-th host token
SubRangesOf(n) ==
    Drain(tokens, Generator(get_preceding_token(tokens, tokens.host_tokens[n]),
                            tokens.host_tokens[n], options.steps))
\* (host token, step) of every sub-range of the run
AllSubRanges ==
    UNION {{<<n, SubRangesOf(n)[i].step>> : i \in 1..Len(SubRangesOf(n))} :
           n \in 1..Len(tokens.host_tokens)}

\* C10: when the run is over and a task has exhausted its retries, every
\* sub-range of every host token has been executed, each exhausted task having
\* had max_tries invocations, and the run has stamped `finished`.
C10_FailureIsolation ==
    (main_pc \in {"done", "exited"} /\ Exhausted # {}) =>
        /\ status.finished # None
        /\ {<<e.node, e.step>> : e \in task_log} = AllSubRanges
        /\ \A e \in Exhausted : e.invocations = options.max_tries

\* (host token, step) of every task given to the pool and not yet returned
Pending == {<<queue[i].node, queue[i].step>> : i \in 1..Len(queue)}
Executing == {<<t.node, t.step>> : t \in running}
Returned == {<<e.node, e.step>> : e \in task_log}

\* C13: repair() stamps `finished` only once every task of every host token
\* has returned; `finished` is null, in the ledger and in its file, whenever a
\* task is pending or running; it is stamped at most once in a run.
C13_CompletionBarrier ==
    /\ (queue # <<>> \/ running # {}) =>
          /\ status.finished = None
          /\ file # NoFile => file.finished = None
    /\ calls.finish <= 1
    /\ status.finished # None <=> calls.finish = 1
    /\ calls.finish = 1 =>
          /\ queue = <<>>
          /\ running = {}
          /\ Returned = AllSubRanges

C13_Witness ==
    /\ main_pc = "done"
    /\ options.workers = 2
    /\ Len(tokens.host_tokens) = 2
    /\ Cardinality(task_log) >= 4
    /\ status.finished # None
    /\ file # NoFile
    /\ file.finished # None

\* task a comes before task b in the order of submission
Before(a, b) == a[1] < b[1] \/ (a[1] = b[1] /\ a[2] < b[2])

\* C14: one task is submitted for each sub-range emitted, at most `workers`
\* tasks execute at any moment, and with one worker the tasks execute one at a
\* time in the order of submission: by host token, then by step.
C14_BoundedConcurrency ==
    /\ Cardinality(running) <= options.workers
    /\ Len(queue) + Cardinality(running) + Cardinality(task_log)
         = Cardinality(Pending \cup Executing \cup Returned)
    /\ main_pc \in {"submit", "join"} =>
          {p \in Pending \cup Executing \cup Returned : p[1] = token_num + 1}
            = {<<token_num + 1, emitted[i].step>> : i \in 1..Len(emitted)}
    /\ options.workers = 1 =>
          /\ \A i, j \in 1..Len(queue) :
                i < j => Before(<<queue[i].node, queue[i].step>>, <<queue[j].node, queue[j].step>>)
          /\ \A a \in Returned : \A b \in Executing \cup Pending : Before(a, b)
          /\ \A a \in Executing : \A b \in Pending : Before(a, b)

C14_Witness ==
    /\ options.workers = 1
    /\ Cardinality(running) = 1
    /\ Cardinality(task_log) >= 2
    /\ Len(queue) >= 1
    /\ token_num = 1

\* C17: in a dry run no task runs the command or sleeps, every task records
\* repair_start and then repair_success, and when the run completes
\* successful_count is the number of tasks, failed_count is 0 and
\* failed_repairs is empty.
C17_DryRun ==
    options.dry_run =>
        /\ \A t \in running : t.invocations = 0 /\ t.pc \notin {"execute", "sleep", "repair_fail"}
        /\ \A e \in task_log : e.invocations = 0 /\ e.success
        /\ calls.repair_fail = 0
        /\ status.failed_count = 0
        /\ status.failed_repairs = <<>>
        /\ main_pc = "done" =>
              /\ calls.repair_start = Cardinality(task_log)
              /\ calls.repair_success = Cardinality(task_log)
              /\ status.successful_count = Cardinality(task_log)

\* the tasks that are inside repair_fail or past it
Failing == {t \in running : \/ t.pc \in {"fail_load", "fail_store"}
                            \/ t.pc \in {"write", "write_file"} /\ t.ret = "return"}

\* C21: a task records its start, and writes it to the status file, before it
\* first runs the command; repair_fail is recorded once for a task, only after
\* its max_tries-th failing attempt in a row, never after each attempt and
\* never for a task one of whose attempts succeeded.
C21_TaskProtocolOrder ==
    ~options.dry_run =>
        /\ \A t \in running :
              /\ t.invocations <= options.max_tries
              /\ (t.invocations > 0 \/ t.pc \in {"execute", "sleep", "repair_fail"})
                    => t.started_cmd # <<>>
              /\ (t.pc = "execute" /\ t.invocations = 0 /\ status.filename) =>
                    /\ file # NoFile
                    /\ file.current_repair # <<>>
                    /\ options.workers = 1 =>
                          /\ file.current_repair.cmd = t.started_cmd
                          /\ file.current_repair.step = t.step
                          /\ file.current_repair.nodeposition = t.nodeposition
              /\ (t.pc = "repair_fail" \/ t \in Failing) =>
                    /\ t.invocations = options.max_tries
                    /\ ~t.success
        /\ \A e \in task_log :
              /\ e.invocations \in 1..options.max_tries
              /\ ~e.success => e.invocations = options.max_tries
        /\ Len(status.failed_repairs) = calls.repair_fail
        /\ calls.repair_fail = Cardinality(Exhausted) + Cardinality(Failing)
        /\ \A i, j \in 1..Len(status.failed_repairs) :
              i # j => <<status.failed_repairs[i].nodeposition, status.failed_repairs[i].step>>
                       # <<status.failed_repairs[j].nodeposition, status.failed_repairs[j].step>>

C21_Witness ==
    /\ main_pc = "done"
    /\ options.max_tries = 2
    /\ status.filename
    /\ \E e \in task_log : ~e.success /\ e.invocations = 2
    /\ \E e \in task_log : e.success /\ e.invocations = 2
    /\ Len(status.failed_repairs) = 1

\* C29: no task of host token i+1 is submitted or started before every task of
\* host token i has returned: all the tasks pending or running at any moment
\* are of the same host token.
C29_PerTokenBarrier ==
    /\ \A p \in Pending \cup Executing : p[1] = token_num + 1
    /\ \A i \in 1..Len(queue) :
          queue[i].nodeposition = NodePosition(token_num + 1, Len(tokens.host_tokens))
    /\ \A t \in running :
          t.nodeposition = NodePosition(token_num + 1, Len(tokens.host_tokens))
    /\ (queue # <<>> \/ running # {}) => main_pc \in {"submit", "join", "crashed", "exited"}
    /\ \A e \in task_log : e.node <= token_num + 1

C29_Witness ==
    /\ options.workers = 2
    /\ token_num = 1
    /\ Cardinality(running) = 2
    /\ \E e \in task_log : e.node = 1
    /\ \A t \in running : t.node = 2

\* C20: when every command returns, the run reaches the state in which every
\* sub-range of every host token has been processed and `finished` is
\* stamped, whatever the ring, the host tokens, steps, workers and the
\* commands' outcomes, host ranges narrower than `steps` included.
C20_RunLiveness ==
    <>(/\ main_pc = "done"
       /\ status.finished # None
       /\ Returned = AllSubRanges)

----------------------------------------------------------------------------
\* Properties of get_preceding_token, format and is_excluded (SpecCall)

CallReturned(fn) == call.fn = fn /\ call.pc = "returned"
RingSet(tc) == {tc.ring_tokens[i] : i \in 1..Len(tc.ring_tokens)}
SetMax(S) == CHOOSE x \in S : \A y \in S : y <= x

\* C15: for a non-empty sorted ring and any token t, get_preceding_token(t) is
\* the largest ring token strictly less than t when there is one, and the
\* ring's largest token otherwise; it is always a token of the ring.
C15_PrecedingToken ==
    CallReturned("get_preceding_token") =>
        LET ring == RingSet(call.args.tc)
            below == {x \in ring : x < call.args.token}
        IN  /\ call.result \in ring
            /\ below # {} => call.result = SetMax(below)
            /\ below = {} => call.result = SetMax(ring)

C15_Witness ==
    /\ CallReturned("get_preceding_token")
    /\ Len(call.args.tc.ring_tokens) = 3
    /\ call.args.token = call.args.tc.ring_tokens[1]
    /\ call.result = call.args.tc.ring_tokens[3]

\* C16: with no offset and an exclude target (node n, step s) that names no
\* keyspace, is_excluded returns SKIP_ENTIRE_STEP for node position n and step
\* s whatever the keyspace of the run, and RUN for every other (node, step).
C16_UnqualifiedExclusion ==
    (/\ CallReturned("is_excluded")
     /\ call.args.options.offset = NotGiven
     /\ call.args.options.exclude_step # NotGiven
     /\ call.args.options.exclude_step[1].keyspace = <<>>) =>
        IF /\ longish(call.args.options.exclude_step[1].node) = call.args.count
           /\ call.args.options.exclude_step[1].step = call.args.step
        THEN call.result = SKIP_ENTIRE_STEP
        ELSE call.result = RUN

C16_Witness ==
    /\ CallReturned("is_excluded")
    /\ call.args.options.offset = NotGiven
    /\ call.args.options.exclude_step # NotGiven
    /\ call.args.options.exclude_step[1].keyspace = <<>>
    /\ call.args.options.keyspace # <<>>
    /\ call.args.count = 2
    /\ call.args.step = 2
    /\ call.result = SKIP_ENTIRE_STEP

\* the offset condition of the call: the offset's node, a step before its step
OffsetHolds ==
    /\ call.args.options.offset # NotGiven
    /\ call.args.options.offset[1].node = call.args.count
    /\ call.args.step < call.args.options.offset[1].step
\* the exclude target is of the call's node and step
TargetMatches ==
    /\ call.args.options.exclude_step # NotGiven
    /\ longish(call.args.options.exclude_step[1].node) = call.args.count
    /\ call.args.options.exclude_step[1].step = call.args.step
TargetKeyspace == call.args.options.exclude_step[1].keyspace
TargetColumnFamily == call.args.options.exclude_step[1].column_family

\* C25, as claimed: is_excluded returns SKIP_KEYSPACE exactly when the exclude
\* target is of the current node and step, names a keyspace and no column
\* family, and the run has no keyspace; it returns SKIP_ENTIRE_STEP only when
\* the offset condition holds or a matching target names no keyspace.
C25_QualifiedExclusion ==
    CallReturned("is_excluded") =>
        /\ call.result = SKIP_KEYSPACE <=>
              (/\ TargetMatches
               /\ TargetKeyspace # <<>>
               /\ TargetColumnFamily = <<>>
               /\ call.args.options.keyspace = <<>>)
        /\ call.result = SKIP_ENTIRE_STEP =>
              (OffsetHolds \/ (TargetMatches /\ TargetKeyspace = <<>>))

\* C25, amended: is_excluded returns SKIP_KEYSPACE exactly when the offset
\* condition does not hold, the exclude target is of the current node and
\* step and names a keyspace, with or without a column family, and the run has
\* no keyspace; it returns SKIP_ENTIRE_STEP only when the offset condition
\* holds or a matching target names no keyspace or names the run's keyspace.
C25_QualifiedExclusionAmended ==
    CallReturned("is_excluded") =>
        /\ call.result = SKIP_KEYSPACE <=>
              (/\ ~OffsetHolds
               /\ TargetMatches
               /\ TargetKeyspace # <<>>
               /\ call.args.options.keyspace = <<>>)
        /\ call.result = SKIP_ENTIRE_STEP =>
              (OffsetHolds
               \/ (TargetMatches
                   /\ (TargetKeyspace = <<>> \/ TargetKeyspace = call.args.options.keyspace)))

C25_Witness ==
    /\ CallReturned("is_excluded")
    /\ call.args.options.offset # NotGiven
    /\ ~OffsetHolds
    /\ TargetMatches
    /\ TargetKeyspace # <<>>
    /\ TargetColumnFamily # <<>>
    /\ call.args.options.keyspace = <<>>
    /\ call.result = SKIP_KEYSPACE

\* the code of a character of a formatted token
CharCode(c) == IF c = "+" THEN 43 ELSE IF c = "-" THEN 45 ELSE 48 + DigitValue(c)
\* s sorts before t, character by character
RECURSIVE LexLess(_, _)
LexLess(s, t) ==
    IF t = <<>> THEN FALSE
    ELSE IF s = <<>> THEN TRUE
    ELSE IF s[1] # t[1] THEN CharCode(s[1]) < CharCode(t[1])
    ELSE LexLess(Tail(s), Tail(t))

TokenSpace(tc) == RANGE_MIN(tc)..RANGE_MAX(tc)

\* C19, as claimed: for any two tokens a < b of the selected space, format(a)
\* and format(b) have the same length and format(a) sorts before format(b).
C19_FormatOrderPreserving ==
    CallReturned("format") =>
        \A b \in TokenSpace(call.args.tc) :
            call.args.value < b =>
                /\ Len(call.result) = Len(Format(call.args.tc, b))
                /\ LexLess(call.result, Format(call.args.tc, b))

\* C19, amended: for any two tokens a < b of the selected space, format(a) and
\* format(b) have the same length; format(a) sorts before format(b) when
\* a >= 0, and format(b) sorts before format(a) when a < 0.
C19_FormatOrderBySign ==
    CallReturned("format") =>
        \A b \in TokenSpace(call.args.tc) :
            call.args.value < b =>
                /\ Len(call.result) = Len(Format(call.args.tc, b))
                /\ call.args.value >= 0 => LexLess(call.result, Format(call.args.tc, b))
                /\ call.args.value < 0 => LexLess(Format(call.args.tc, b), call.result)

C19_Witness ==
    /\ CallReturned("format")
    /\ ~call.args.tc.md5
    /\ call.args.value = -2
    /\ LexLess(Format(call.args.tc, -1), call.result)
    /\ LexLess(Format(call.args.tc, 1), call.result)

----------------------------------------------------------------------------
\* Properties of repair_failed_ranges.py (SpecResume)

ResumeReturned == resume.pc \in {"returned", "exited"}
\* the indices of the loaded entries whose command succeeded, and failed again
SucceededAgain == {k \in 1..Len(resume.outcomes) : resume.outcomes[k]}
FailedAgain == {k \in 1..Len(resume.outcomes) : ~resume.outcomes[k]}
\* the loaded entries from the lo-th to the hi-th whose command failed again,
\* in their order, each with the time of its new attempt
RECURSIVE StillFailing(_, _)
StillFailing(lo, hi) ==
    IF lo > hi THEN <<>>
    ELSE IF lo = hi
    THEN (IF resume.outcomes[lo]
          THEN <<>>
          ELSE <<[resume.loaded.failed_repairs[lo] EXCEPT !.time = Now]>>)
    ELSE LET mid == (lo + hi) \div 2
         IN  StillFailing(lo, mid) \o StillFailing(mid + 1, hi)

\* C11: on a loaded status with no failed entry, repair_failed_ranges leaves
\* successful_count, failed_count and failed_repairs as they were, runs no
\* command, returns 0, and sets `finished` to a timestamp, also when the
\* loaded `finished` was null.
C11_ResumeNothingToDo ==
    (Len(resume.loaded.failed_repairs) = 0 /\ ResumeReturned) =>
        /\ resume.status.successful_count = resume.loaded.successful_count
        /\ resume.status.failed_count = resume.loaded.failed_count
        /\ resume.status.failed_repairs = resume.loaded.failed_repairs
        /\ resume.outcomes = <<>>
        /\ resume.num_failed = 0
        /\ resume.status.finished # None
        /\ resume.file.finished # None

\* C12: on a loaded status with n >= 1 failed entries, whatever the commands'
\* outcomes, once repair_failed_ranges has returned successful_count has grown
\* by the number of entries whose command succeeded, failed_count has shrunk by
\* that number, failed_repairs is the entries whose command failed again in
\* their original order, the value returned is their number, `finished` is
\* null in every document written while entries are processed and not null in
\* the last document written.
C12_ResumeOutcome ==
    Len(resume.loaded.failed_repairs) >= 1 =>
        /\ resume.pc \in {"for", "run"} => resume.file.finished = None
        /\ ResumeReturned =>
            /\ Len(resume.outcomes) = Len(resume.loaded.failed_repairs)
            /\ resume.status.successful_count
                 = resume.loaded.successful_count + Cardinality(SucceededAgain)
            /\ resume.status.failed_count
                 = resume.loaded.failed_count - Cardinality(SucceededAgain)
            /\ resume.status.failed_repairs = StillFailing(1, Len(resume.outcomes))
            /\ resume.num_failed = Cardinality(FailedAgain)
            /\ resume.file = resume.status
            /\ resume.file.finished # None

C12_Witness ==
    /\ resume.pc = "returned"
    /\ resume.loaded.finished # None
    /\ resume.outcomes = <<FALSE, TRUE, FALSE>>
    /\ resume.num_failed = 2
    /\ resume.status.failed_repairs[1].step = 1
    /\ resume.status.failed_repairs[2].step = 3

\* C18: the script exits with the number of entries still failing, and for
\* every such number, 256 and more included, the exit status is 0 exactly
\* when no entry is still failing.
C18_ExitStatusZeroIffAllRepaired ==
    resume.pc = "exited" =>
        (resume.exit_status = 0 <=> Len(resume.status.failed_repairs) = 0)

\* C26: the loop runs once for each entry of failed_repairs as loaded, in the
\* list's order; the entry deleted from the head of the live list is the entry
\* being run again; its stored cmd is run once, unchanged; an entry put back
\* after failing again is not run again in the same run.
C26_ResumePerEntry ==
    (Len(resume.loaded.failed_repairs) >= 1 /\ resume.pc # "main") =>
        /\ Len(resume.commands) = Len(resume.outcomes)
        /\ Len(resume.commands) = resume.i
        /\ Len(resume.commands) <= Len(resume.loaded.failed_repairs)
        /\ \A k \in 1..Len(resume.commands) :
              resume.commands[k] = resume.loaded.failed_repairs[k].cmd
        /\ resume.pc = "run" =>
              /\ resume.deleted = resume.loaded.failed_repairs[resume.i + 1]
              /\ resume.status.current_repair.cmd = resume.deleted.cmd
        /\ ResumeReturned => Len(resume.commands) = Len(resume.loaded.failed_repairs)

C26_Witness ==
    /\ resume.pc = "returned"
    /\ resume.outcomes = <<FALSE, FALSE, TRUE>>
    /\ Len(resume.commands) = 3
    /\ Len(resume.status.failed_repairs) = 2

----------------------------------------------------------------------------
\* Properties of the status file (SpecLedger)

\* C28: in every document a run of repair() with one worker writes,
\* failed_count is the length of failed_repairs; when that holds of the
\* document repair_failed_ranges loads, it holds of every document the script
\* writes, and successful_count + failed_count is the same in the document
\* written after each entry's outcome as in the loaded one.
C28_LedgerCounts ==
    /\ (main_pc # "idle" /\ options.workers = 1 /\ file # NoFile) =>
          file.failed_count = Len(file.failed_repairs)
    /\ (resume.pc # "idle"
        /\ resume.loaded.failed_count = Len(resume.loaded.failed_repairs)) =>
          /\ resume.file.failed_count = Len(resume.file.failed_repairs)
          /\ (resume.pc = "for" \/ ResumeReturned) =>
                resume.file.successful_count + resume.file.failed_count
                  = resume.loaded.successful_count + resume.loaded.failed_count

C28_Witness ==
    /\ main_pc = "done"
    /\ file # NoFile
    /\ file.failed_count = 2
    /\ Len(file.failed_repairs) = 2

----------------------------------------------------------------------------
\* Properties of a task with an offset or an exclusion (SpecTask)

\* the tasks that is_excluded has classified, running or returned
Classified == {LogEntry(t) : t \in {r \in running : r.excluded # -1}} \cup task_log

\* the task ran no command and started no repair
NotRepaired(e) == e.invocations = 0 /\ e.started_cmd = <<>> /\ e.subtasks = <<>>

\* C22 as stated: with an offset (node, step), every sub-range of the owned
\* range at position node whose step index is at or before the offset's step
\* is classified SKIP_ENTIRE_STEP and is not repaired.
C22_OffsetAtOrBefore ==
    options.offset # NotGiven =>
        \A e \in Classified :
            (e.node = options.offset[1].node /\ e.step <= options.offset[1].step) =>
                e.excluded = SKIP_ENTIRE_STEP /\ NotRepaired(e)

\* C22 amended: with an offset (node, step), every sub-range of the owned range
\* at position node whose step index is strictly before the offset's step is
\* classified SKIP_ENTIRE_STEP and is not repaired; the sub-range at the
\* offset's step is not skipped by the offset: without an exclusion it is
\* classified RUN, and its command has run by the time the task returns.
C22_OffsetStrictlyBefore ==
    options.offset # NotGiven =>
        /\ \A e \in Classified :
              (e.node = options.offset[1].node /\ e.step < options.offset[1].step) =>
                  e.excluded = SKIP_ENTIRE_STEP /\ NotRepaired(e)
        /\ \A e \in Classified :
              (/\ e.node = options.offset[1].node
               /\ e.step = options.offset[1].step
               /\ options.exclude_step = NotGiven) =>
                  /\ e.excluded = RUN
                  /\ e \in task_log => e.invocations >= 1

C22_Witness ==
    /\ options.offset # NotGiven
    /\ \E e \in task_log :
          /\ e.node = options.offset[1].node
          /\ e.step < options.offset[1].step
          /\ e.excluded = SKIP_ENTIRE_STEP

\* the ledger as repair_status.start(options) left it
StartedLedger == Written(StatusStart(RepairStatus, options))

\* C27: a task classified SKIP_ENTIRE_STEP, by the offset or by the exclusion,
\* invokes no command, and no repair_start, repair_success or repair_fail is
\* recorded for it: current_repair, failed_repairs, successful_count and
\* failed_count, and the status file, are as they were.
C27_SkippedStepNoEffect ==
    \A e \in Classified :
        e.excluded = SKIP_ENTIRE_STEP =>
            /\ NotRepaired(e)
            /\ calls.repair_start = 0 /\ calls.repair_success = 0 /\ calls.repair_fail = 0
            /\ status.current_repair = StartedLedger.current_repair
            /\ status.failed_repairs = StartedLedger.failed_repairs
            /\ status.successful_count = StartedLedger.successful_count
            /\ status.failed_count = StartedLedger.failed_count
            /\ file = Document(StartedLedger)

C27_Witness ==
    /\ \E e \in task_log : e.excluded = SKIP_ENTIRE_STEP
    /\ options.exclude_step # NotGiven
    /\ options.offset = NotGiven

\* where x comes first in seq
PositionOf(seq, x) == CHOOSE i \in 1..Len(seq) : seq[i] = x /\ \A j \in 1..(i - 1) : seq[j] # x

\* the keyspace a repair command names, and the column families it names
\* after it: none named is the whole keyspace
CommandKeyspace(cmd) == cmd[PositionOf(cmd, <<"r", "e", "p", "a", "i", "r">>) + 1]
CommandFamilies(cmd) ==
    SubSeq(cmd, PositionOf(cmd, <<"r", "e", "p", "a", "i", "r">>) + 2,
                PositionOf(cmd, <<"-", "p", "r">>) - 1)
Repairs(cmd, keyspace, column_family) ==
    /\ CommandKeyspace(cmd) = keyspace
    /\ \/ CommandFamilies(cmd) = <<>>
       \/ \E i \in 1..Len(CommandFamilies(cmd)) : CommandFamilies(cmd)[i] = column_family

\* the sub-tasks the expansion is to run for a listing of keyspaces
ExpectedSubTasks(listing, target) ==
    LET kept == SelectSeq(listing, LAMBDA k : k.keyspace # target.keyspace
                                              \/ target.column_family # <<>>)
    IN  [i \in 1..Len(kept) |->
            [keyspace |-> kept[i].keyspace,
             column_families |-> IF kept[i].keyspace = target.keyspace
                                 THEN SelectSeq(kept[i].column_families,
                                                LAMBDA cf : cf # target.column_family)
                                 ELSE options.columnfamily]]

\* C24: a task that is_excluded classified SKIP_KEYSPACE, the keyspaces listed,
\* has run when it returns one sub-task per listed keyspace other than the
\* excluded one, none for the excluded keyspace when no column family is
\* named, and, when one is named, one for the excluded keyspace with that
\* keyspace's other column families; no command of these sub-tasks repairs the
\* excluded column family of the excluded keyspace.
C24_KeyspaceExpansion ==
    \A e \in task_log :
        (e.excluded = SKIP_KEYSPACE /\ e.raised # "Exception") =>
            /\ [i \in 1..Len(e.subtasks) |->
                   [keyspace |-> e.subtasks[i].keyspace,
                    column_families |-> e.subtasks[i].column_families]]
                 = ExpectedSubTasks(call.args.keyspaces, options.exclude_step[1])
            /\ options.exclude_step[1].column_family # <<>> =>
                 \A i \in 1..Len(e.subtasks) :
                    ~Repairs(e.subtasks[i].cmd, options.exclude_step[1].keyspace,
                             options.exclude_step[1].column_family)

----------------------------------------------------------------------------
\* Properties of a run with an offset (SpecOffset)

\* C23: with an offset (node, step), no sub-range is computed and no task is
\* submitted for an owned token at a position before node; for every position
\* from node on, one task per sub-range is submitted; the owned tokens are
\* visited in ascending order.
C23_OffsetRangeSkipping ==
    /\ [](/\ \A p \in Pending \cup Executing \cup Returned : p[1] >= options.offset[1].node
          /\ main_pc \in {"submit", "join"} =>
                /\ token_num + 1 >= options.offset[1].node
                /\ {p \in Pending \cup Executing \cup Returned : p[1] = token_num + 1}
                     = {<<token_num + 1, emitted[i].step>> : i \in 1..Len(emitted)}
          /\ \A p \in Pending \cup Executing : p[1] = token_num + 1
          /\ \A p \in Returned : p[1] <= token_num + 1
          /\ main_pc = "done" =>
                Returned = {p \in AllSubRanges : p[1] >= options.offset[1].node})
    /\ [][/\ token_num' \in {token_num, token_num + 1}
          /\ (main_pc = "for" /\ token_num + 1 < options.offset[1].node) =>
                (gen' = gen /\ emitted' = emitted /\ queue' = queue /\ running' = running)]_vars

C23_Witness ==
    /\ main_pc = "done"
    /\ options.offset[1].node = 2
    /\ Len(tokens.host_tokens) = 2
    /\ Returned # {}
    /\ \A p \in Returned : p[1] = 2

====
